---- MODULE Spec2Model ----
(***************************************************************************)
(* Model of the setup orchestrator (src/setup_orchestrator.py): the phase  *)
(* state machine of SetupOrchestrator.run_complete_setup, the failure      *)
(* classification done inside the two phases, and the supervision of the   *)
(* initiate.py child process.                                              *)
(***************************************************************************)
EXTENDS Integers, Sequences, FiniteSets, TLC

(***************************************************************************)
(* Bounds of the model.                                                    *)
(***************************************************************************)
MaxFaults == 1        \* tracker calls that may raise in one run
MaxInterrupts == 2    \* KeyboardInterrupts delivered in one run
MaxLines == 7         \* lines of a generated captured output
MaxPatTokens == 3     \* tokens of a generated pattern text
MaxInitCalls == 2     \* consecutive calls of initialize_setup_state
MaxChildLines == 2    \* lines the child writes to one stream
MaxStreamErrors == 1  \* exceptions raised inside the forwarding threads

(***************************************************************************)
(* Program constants.                                                      *)
(***************************************************************************)
TerminateTimeout == 5
GraceInterval == 2
TailLines == 5

(***************************************************************************)
(* Captured text.  A text is a sequence of tokens; "NL" is the newline,    *)
(* "SP" a blank, "w" any other word, and every substring the code looks    *)
(* for is one token, so that `pattern in text' is membership.              *)
(***************************************************************************)
UpdatePatterns ==
    << "Downgrades are not permitted", "Update not permitted",
       "Failed to fetch latest version", "Invalid version format" >>

VerificationPatterns == << "Critical Errors", "VERIFICATION FAILED" >>

Markers == { "[ERROR]", "[FAIL]" }

Whitespace == { "SP", "NL" }

Contains(text, pat) == \E i \in 1..Len(text) : text[i] = pat

\* str.strip(): drop leading and trailing whitespace
RECURSIVE LStrip(_)
LStrip(t) ==
    IF t = << >> THEN << >>
    ELSE IF Head(t) \in Whitespace THEN LStrip(Tail(t)) ELSE t

RECURSIVE RStrip(_)
RStrip(t) ==
    IF t = << >> THEN << >>
    ELSE IF t[Len(t)] \in Whitespace THEN RStrip(SubSeq(t, 1, Len(t) - 1)) ELSE t

Strip(t) == RStrip(LStrip(t))

\* str.split('\n'): the lines of a text, always at least one
RECURSIVE SplitLines(_, _)
SplitLines(t, cur) ==
    IF t = << >> THEN << cur >>
    ELSE IF Head(t) = "NL" THEN << cur >> \o SplitLines(Tail(t), << >>)
    ELSE SplitLines(Tail(t), Append(cur, Head(t)))

Split(t) == SplitLines(t, << >>)

\* variant: every line is scanned
LastLines_All(lines) == lines

\* output_lines[-5:]
LastLines(lines) ==
    IF Len(lines) <= TailLines THEN lines
    ELSE SubSeq(lines, Len(lines) - TailLines + 1, Len(lines))

HasMarker(line) == \E m \in Markers : Contains(line, m)

\* for line in reversed(lines): first line with a marker, stripped; "" if none
RECURSIVE ScanReversed(_)
ScanReversed(lines) ==
    IF lines = << >> THEN << >>
    ELSE IF HasMarker(lines[Len(lines)]) THEN Strip(lines[Len(lines)])
    ELSE ScanReversed(SubSeq(lines, 1, Len(lines) - 1))

(***************************************************************************)
(* Exit signals: SystemExit.code is None, an integer or a message.         *)
(***************************************************************************)
NoneCode == [kind |-> "none", n |-> 0]
IntCode(n) == [kind |-> "int", n |-> n]

CodeStr(code) ==
    IF code.kind = "none" THEN "None"
    ELSE IF code.kind = "str" THEN "message"
    ELSE ToString(code.n)

CodeIsZero(code) == code.kind = "int" /\ code.n = 0

GenericMessage(prefix, code) == << prefix, CodeStr(code) >>

\* the fallback shared by both phases once no pattern matched
Fallback(prefix, regular_output, error_output, exit_code) ==
    IF Strip(error_output) # << >> THEN Strip(error_output)
    ELSE IF Strip(regular_output) # << >> THEN
        LET found == ScanReversed(LastLines(Split(Strip(regular_output))))
        IN  IF found # << >> THEN found ELSE GenericMessage(prefix, exit_code)
    ELSE GenericMessage(prefix, exit_code)

InEither(pat, regular_output, error_output) ==
    Contains(regular_output, pat) \/ Contains(error_output, pat)

\* variant: "Update not permitted" is looked for first
ClassifyUpdate_Swapped(regular_output, error_output, exit_code) ==
    IF InEither(UpdatePatterns[2], regular_output, error_output)
        THEN << "Update not permitted or cancelled by user" >>
    ELSE IF InEither(UpdatePatterns[1], regular_output, error_output)
        THEN << "Downgrade not permitted: Target version is older than current version" >>
    ELSE IF InEither(UpdatePatterns[3], regular_output, error_output)
        THEN << "Failed to fetch version information from server" >>
    ELSE IF InEither(UpdatePatterns[4], regular_output, error_output)
        THEN << "Invalid version format specified" >>
    ELSE Fallback("Update process failed with exit code ",
                  regular_output, error_output, exit_code)

ClassifyUpdate(regular_output, error_output, exit_code) ==
    IF InEither(UpdatePatterns[1], regular_output, error_output)
        THEN << "Downgrade not permitted: Target version is older than current version" >>
    ELSE IF InEither(UpdatePatterns[2], regular_output, error_output)
        THEN << "Update not permitted or cancelled by user" >>
    ELSE IF InEither(UpdatePatterns[3], regular_output, error_output)
        THEN << "Failed to fetch version information from server" >>
    ELSE IF InEither(UpdatePatterns[4], regular_output, error_output)
        THEN << "Invalid version format specified" >>
    ELSE Fallback("Update process failed with exit code ",
                  regular_output, error_output, exit_code)

ClassifyVerification(regular_output, error_output, exit_code) ==
    IF Contains(regular_output, VerificationPatterns[1])
        THEN << "Environment verification found critical errors" >>
    ELSE IF Contains(regular_output, VerificationPatterns[2])
        THEN << "Environment verification failed" >>
    ELSE Fallback("Verification process failed with exit code ",
                  regular_output, error_output, exit_code)

Classify(phase, regular_output, error_output, exit_code) ==
    IF phase = "codebase_update"
    THEN ClassifyUpdate(regular_output, error_output, exit_code)
    ELSE ClassifyVerification(regular_output, error_output, exit_code)

(***************************************************************************)
(* State.                                                                  *)
(***************************************************************************)
VARIABLES
    pc,                      \* position of run_complete_setup
    tracker,                 \* setup_tracker was imported (not None)
    update_mod,              \* update was imported
    verification_mod,        \* verification_env was imported
    store,                   \* the setup state persisted by the tracker
    store0,                  \* the setup state stored when the run started
    writes,                  \* tracker calls that completed, in order
    faults,                  \* tracker calls that raised so far
    interrupts,              \* KeyboardInterrupts delivered so far
    invoked,                 \* external steps invoked, in order
    update_success,
    verification_success,
    setup_successful,
    overall_exit_code,
    last_update_error,
    last_verification_error,
    initiate_process,        \* "none", "running" or "exited"
    child_status,            \* returncode of the child once exited
    python_exists,
    initiate_exists,
    threads,                 \* forwarding threads started
    signals,                 \* terminate / kill sent to the child
    timer,                   \* time units spent in the current sleep or wait
    exit_code,               \* value returned by run_complete_setup
    phase_returns,           \* what each phase returned: "none", "TRUE", "FALSE"
    step_outcome,            \* what the step invoked by each phase did
    prestep_outcome,         \* what run_pre_setup_script did
    init_calls,              \* calls of initialize_setup_state made
    cl_pc, cl_phase, cl_out, cl_err, cl_code, cl_msg,  \* classifier harness
    fw_pc,                   \* position of each forwarding thread
    fw_line,                 \* the line each forwarding thread holds
    fw_pipe,                 \* lines written to each pipe and not yet read
    fw_written,              \* lines the child wrote to each stream, in order
    fw_out,                  \* what was printed on the orchestrator's stdout
    fw_child,                \* "none", "running" or "exited"
    fw_main,                 \* position of the main thread after the spawn
    fw_signals,              \* terminate / kill sent to the child
    fw_errors,               \* stream errors raised in forwarding threads
    mn_pc,                   \* position of main()
    mn_argv,                 \* the command line after the program name
    mn_exit,                 \* the code main() called sys.exit with
    mn_created,              \* SetupOrchestrator(args.version) was created
    ver_pc,                  \* position of the version comparison harness
    ver_a, ver_b, ver_c,     \* three Version objects
    ver_res                  \* results of the comparisons made on them

orchVars ==
    << pc, tracker, update_mod, verification_mod, store, store0, writes,
       faults, interrupts, invoked, update_success, verification_success,
       setup_successful, overall_exit_code, last_update_error,
       last_verification_error, initiate_process, child_status,
       python_exists, initiate_exists, threads, signals, timer, exit_code,
       phase_returns, step_outcome, prestep_outcome, init_calls >>

clVars == << cl_pc, cl_phase, cl_out, cl_err, cl_code, cl_msg >>

fwVars == << fw_pc, fw_line, fw_pipe, fw_written, fw_out, fw_child, fw_main,
            fw_signals, fw_errors >>

mainVars == << mn_pc, mn_argv, mn_exit, mn_created >>

verVars == << ver_pc, ver_a, ver_b, ver_c, ver_res >>

vars == << orchVars, clVars, fwVars, mainVars, verVars >>

PhaseNames == { "codebase_update", "environment_verification" }

\* the two output streams of the child: process.stdout and process.stderr
Streams == { "stdout", "stderr" }

\* a line of the child: the stream it was written to and its number there
ChildLine(stream, n) == [stream |-> stream, n |-> n]

NoLine == ChildLine("-", 0)

\* f"Stream error: {e}", printed in place of a line
ErrorLine == ChildLine("Stream error", 0)

NotReturned == -1

(***************************************************************************)
(* The tracker (StatusReporter).  setup_tracker is not part of the         *)
(* sources; its effect on the stored state follows the interface of the    *)
(* specification.                                                          *)
(***************************************************************************)
update_overall_status(s, status) == [s EXCEPT !.overall_status = status]

update_phase_progress(s, phase, is_running, progress) ==
    [s EXCEPT !.phases[phase] =
        [status |-> IF is_running THEN "running" ELSE "completed",
         progress |-> progress,
         error |-> @.error]]

mark_phase_failed(s, phase, error) ==
    [s EXCEPT !.phases[phase] =
        [status |-> "failed", progress |-> @.progress, error |-> error]]

\* one tracker call, as it is logged in writes
OverallCall(status, site) ==
    [op |-> "update_overall_status", phase |-> "-", status |-> status,
     progress |-> 0, error |-> << >>, site |-> site]

ProgressCall(phase, progress, site) ==
    [op |-> "update_phase_progress", phase |-> phase, status |-> "running",
     progress |-> progress, error |-> << >>, site |-> site]

FailedCall(phase, error, site) ==
    [op |-> "mark_phase_failed", phase |-> phase, status |-> "failed",
     progress |-> 0, error |-> error, site |-> site]

ApplyCall(s, c) ==
    IF c.op = "update_overall_status" THEN update_overall_status(s, c.status)
    ELSE IF c.op = "update_phase_progress"
        THEN update_phase_progress(s, c.phase, TRUE, c.progress)
    ELSE mark_phase_failed(s, c.phase, c.error)

RECURSIVE ApplyCalls(_, _, _)
ApplyCalls(s, calls, n) ==
    IF n = 0 THEN s
    ELSE ApplyCall(ApplyCalls(s, calls, n - 1), calls[n])

\* the calls of a list are made in order; call k raises (k = 0: none does)
Exec(s, w, calls, k) ==
    LET n == IF k = 0 THEN Len(calls) ELSE k - 1
    IN  [s |-> ApplyCalls(s, calls, n), w |-> w \o SubSeq(calls, 1, n),
         nf |-> IF k = 0 THEN 0 ELSE 1]

\* positions at which a list of n tracker calls may raise, given nf faults
\* already taken by the current step
FaultPos(n, nf) == IF faults + nf < MaxFaults THEN 0..n ELSE {0}

(***************************************************************************)
(* Inputs of a run.                                                        *)
(***************************************************************************)
PhaseRec(status, progress) == [status |-> status, progress |-> progress, error |-> << >>]

\* the phases of a stored state: a fresh store, a record without phases,
\* the store left by a complete run and the store left by a failed run
InitialPhases ==
    { [p \in PhaseNames |-> PhaseRec("pending", 0)],
      [p \in PhaseNames |-> PhaseRec("absent", 0)],
      [p \in PhaseNames |-> PhaseRec("running", 100)],
      [p \in PhaseNames |->
          IF p = "codebase_update"
          THEN [status |-> "failed", progress |-> 5, error |-> << "w" >>]
          ELSE PhaseRec("pending", 0)] }

InitialOverall == { "unset", "not_started", "running", "completed", "failed", "error" }

InitialStores ==
    { [overall_status |-> o,
       overall_progress |-> IF o = "completed" THEN 100 ELSE 0,
       phases |-> ph] : o \in InitialOverall, ph \in InitialPhases }

\* what one invocation of update.main() / verification_env.main() does:
\* it returns, raises SystemExit(code) or raises another exception, and
\* leaves text in the two captured streams
StepOutcome(kind, code, out, err) == [kind |-> kind, code |-> code, out |-> out, err |-> err]

StepOutcomes ==
    { StepOutcome("return", NoneCode, << "w", "NL" >>, << >>),
      StepOutcome("exit", IntCode(0), << "w", "NL" >>, << >>),
      StepOutcome("exit", NoneCode, << >>, << >>),
      StepOutcome("exit", IntCode(1), << "w", "NL", "Invalid version format", "NL" >>, << >>),
      StepOutcome("exit", IntCode(1), << "Critical Errors", "NL" >>, << "SP", "w", "NL" >>),
      StepOutcome("exit", IntCode(2), << "SP", "[ERROR]", "w", "SP", "NL", "w", "NL" >>, << >>),
      StepOutcome("exit", IntCode(1), << >>, << "SP", "w", "NL" >>),
      StepOutcome("exit", IntCode(3), << >>, << >>),
      StepOutcome("raise", NoneCode, << "w" >>, << >>) }

\* the step of a phase was not invoked
NotInvoked == StepOutcome("none", NoneCode, << >>, << >>)

ChildStatuses == { 0, 1 }

(***************************************************************************)
(* Control transfers of run_complete_setup.  A record r = [s, w, nf] is    *)
(* the stored state, the log of tracker calls and the number of tracker    *)
(* faults produced so far by the step being taken.                         *)
(***************************************************************************)
R0 == [s |-> store, w |-> writes, nf |-> 0]

Then(r, calls, k) ==
    LET e == Exec(r.s, r.w, calls, k)
    IN  [s |-> e.s, w |-> e.w, nf |-> r.nf + e.nf]

Core(r, to, code) ==
    /\ store' = r.s
    /\ writes' = r.w
    /\ faults' = faults + r.nf
    /\ pc' = to
    /\ exit_code' = code

Goto(r, to) == Core(r, to, exit_code)

Return(r, code) == Core(r, "done", code)

\* an exception leaves run_complete_setup
Escape(r) == Core(r, "escaped", exit_code)

\* except Exception of run_complete_setup
Raise(r) ==
    LET calls == IF tracker THEN << OverallCall("error", "orchestration_except") >>
                 ELSE << >>
    IN  \E k \in FaultPos(Len(calls), r.nf) :
            IF k = 0 THEN Return(Then(r, calls, k), 99)
            ELSE Escape(Then(r, calls, k))

(***************************************************************************)
(* initialize_setup_state                                                  *)
(***************************************************************************)
\* variant: a fresh start prepares both phases whatever their stored status
FreshStartCalls_BothPhases(current_state) ==
    << OverallCall("running", "init"),
       ProgressCall("codebase_update", 0, "init"),
       ProgressCall("environment_verification", 0, "init") >>

\* the tracker calls of a fresh start
FreshStartCalls(current_state) ==
    << OverallCall("running", "init") >>
    \o (IF current_state.phases["codebase_update"].status = "pending"
        THEN << ProgressCall("codebase_update", 0, "init") >> ELSE << >>)
    \o (IF current_state.phases["environment_verification"].status = "pending"
        THEN << ProgressCall("environment_verification", 0, "init") >> ELSE << >>)

\* variant: only a completed state is preserved
InitCalls_CompletedOnly(current_state) ==
    IF current_state.overall_status = "completed" THEN << >>
    ELSE IF current_state.overall_status = "running" THEN << >>
    ELSE FreshStartCalls(current_state)

\* the tracker calls initialization makes for a loaded state
InitCalls(current_state) ==
    IF current_state.overall_status \in { "completed", "failed" } THEN << >>
    ELSE IF current_state.overall_status = "running" THEN << >>
    ELSE FreshStartCalls(current_state)

\* except Exception of initialize_setup_state: report "error", return False,
\* and run_complete_setup returns 1
InitExcept(r) ==
    LET calls == << OverallCall("error", "init_except") >>
    IN  \E k \in FaultPos(Len(calls), r.nf) :
            IF k = 0 THEN Return(Then(r, calls, k), 1)
            ELSE Raise(Then(r, calls, k))

InitializeBody ==
    /\ init_calls' = init_calls + 1
    /\ IF ~tracker THEN Goto(R0, "prestep")
       ELSE \/ \* get_tracker() raises: the handler then uses the unbound
               \* name tracker, and that exception leaves the function
               /\ faults < MaxFaults
               /\ Raise([R0 EXCEPT !.nf = 1])
            \/ \* load_setup_state() raises
               /\ faults < MaxFaults
               /\ InitExcept([R0 EXCEPT !.nf = 1])
            \/ LET calls == InitCalls(store)
               IN  \E k \in FaultPos(Len(calls), 0) :
                       IF k = 0 THEN Goto(Then(R0, calls, k), "prestep")
                       ELSE InitExcept(Then(R0, calls, k))
    /\ UNCHANGED << tracker, update_mod, verification_mod, store0, interrupts,
                    invoked, update_success, verification_success, phase_returns,
                    setup_successful, overall_exit_code, last_update_error,
                    last_verification_error, initiate_process, child_status,
                    python_exists, initiate_exists, threads, signals, timer,
                    step_outcome,
                    prestep_outcome, clVars, fwVars,
                    mainVars, verVars >>

initialize_setup_state ==
    /\ pc = "init"
    /\ InitializeBody

(***************************************************************************)
(* run_pre_setup_script: best effort, every exception is swallowed         *)
(***************************************************************************)
\* how the body of run_pre_setup_script ends: it returns early because the
\* target version is installed, the request or its answer raises, the
\* script cannot be run or fails, or the script has run
PreStepOutcomes == { "skipped", "fetch_failed", "script_failed", "completed" }

\* variant: a failed pre-step ends the run
AfterPreStep_AbortOnFailure(outcome) ==
    IF outcome \in { "fetch_failed", "script_failed" } THEN "done" ELSE "update"

\* except Exception swallows every failure, and run_complete_setup does
\* not look at what the call returned
AfterPreStep(outcome) == "update"

run_pre_setup_script ==
    /\ pc = "prestep"
    /\ \E outcome \in PreStepOutcomes :
        /\ prestep_outcome' = outcome
        /\ Goto(R0, AfterPreStep(outcome))
    /\ invoked' = Append(invoked, "pre_setup")
    /\ UNCHANGED << tracker, update_mod, verification_mod, store0, init_calls, interrupts,
                    update_success, verification_success, phase_returns,
                    setup_successful, overall_exit_code, last_update_error,
                    last_verification_error, initiate_process, child_status,
                    python_exists, initiate_exists, threads, signals, timer,
                    step_outcome, clVars, fwVars,
                    mainVars, verVars >>

\* KeyboardInterrupt while the pre-step reads the version file: the bare
\* except around the read swallows it and the pre-step goes on
interrupt_in_version_read ==
    /\ pc = "prestep"
    /\ Len(interrupts) < MaxInterrupts
    /\ interrupts' = Append(interrupts, "version_read")
    /\ UNCHANGED << pc, tracker, update_mod, verification_mod, store, store0, init_calls,
                    writes, faults, invoked, update_success, verification_success,
                    phase_returns, setup_successful, overall_exit_code,
                    last_update_error, last_verification_error,
                    initiate_process, child_status, python_exists,
                    initiate_exists, threads, signals, timer, exit_code,
                    step_outcome, prestep_outcome, clVars, fwVars,
                    mainVars, verVars >>

(***************************************************************************)
(* The two phases                                                          *)
(***************************************************************************)
\* variant: an exit signal without a code counts as a success
StepSuccess_NoCodeIsZero(o) ==
    IF o.kind = "return" THEN TRUE
    ELSE IF o.kind = "exit" THEN CodeIsZero(o.code) \/ o.code = NoneCode
    ELSE FALSE

\* success of a step invocation
StepSuccess(o) ==
    IF o.kind = "return" THEN TRUE
    ELSE IF o.kind = "exit" THEN CodeIsZero(o.code)
    ELSE FALSE

\* variant: an exit signal always gives the generic message
StepMessage_Generic(phase, o) ==
    IF o.kind = "return" THEN << >>
    ELSE IF o.kind = "exit"
        THEN GenericMessage(IF phase = "codebase_update"
                            THEN "Update process failed with exit code "
                            ELSE "Verification process failed with exit code ",
                            o.code)
    ELSE IF phase = "codebase_update" THEN << "Exception during update: ", "fault" >>
    ELSE << "Exception during verification: ", "fault" >>

\* the message built for a step invocation
StepMessage(phase, o) ==
    IF o.kind = "return" THEN << >>
    ELSE IF o.kind = "exit" THEN Classify(phase, o.out, o.err, o.code)
    ELSE IF phase = "codebase_update" THEN << "Exception during update: ", "fault" >>
    ELSE << "Exception during verification: ", "fault" >>

\* self.last_update_error / self.last_verification_error after the step
LastError(phase, present, o) ==
    IF ~present
    THEN IF phase = "codebase_update" THEN << "Update module not available" >>
         ELSE << "Verification module not available" >>
    ELSE IF StepSuccess(o) THEN << >> ELSE StepMessage(phase, o)

\* variant: a failure is not recorded against the phase
FinalCalls_SuccessOnly(phase, success, error_msg) ==
    IF ~tracker THEN << >>
    ELSE IF success THEN << ProgressCall(phase, 100, "phase_end") >>
    ELSE << >>

\* the final report of a phase
FinalCalls(phase, success, error_msg) ==
    IF ~tracker THEN << >>
    ELSE IF success THEN << ProgressCall(phase, 100, "phase_end") >>
    ELSE << FailedCall(phase, error_msg, "phase_end") >>

ExceptMessage(phase) ==
    IF phase = "codebase_update" THEN << "Update exception: ", "fault" >>
    ELSE << "Verification exception: ", "fault" >>

\* variant: the verification phase is entered whatever the update returned
AfterUpdate_AlwaysVerify(r, success) ==
    /\ Goto(r, "verify")
    /\ update_success' = success
    /\ verification_success' = FALSE
    /\ phase_returns' = [phase_returns EXCEPT !["codebase_update"] = ToString(success)]

\* run_complete_setup after run_codebase_update returned
AfterUpdate(r, success) ==
    /\ Goto(r, IF success THEN "verify" ELSE "finalize")
    /\ update_success' = success
    /\ verification_success' = FALSE
    /\ phase_returns' = [phase_returns EXCEPT !["codebase_update"] = ToString(success)]

\* variant: a verification that failed is run a second time
AfterVerification_RetryOnce(r, success) ==
    /\ Goto(r, IF ~success /\ phase_returns["environment_verification"] = "none"
               THEN "verify" ELSE "finalize")
    /\ verification_success' = success
    /\ phase_returns' =
           [phase_returns EXCEPT !["environment_verification"] = ToString(success)]
    /\ UNCHANGED update_success

\* run_complete_setup after run_environment_verification returned
AfterVerification(r, success) ==
    /\ Goto(r, "finalize")
    /\ verification_success' = success
    /\ phase_returns' =
           [phase_returns EXCEPT !["environment_verification"] = ToString(success)]
    /\ UNCHANGED update_success

\* outer except Exception of a phase: mark the phase failed, return False
PhaseExcept(phase, r) ==
    LET calls == << FailedCall(phase, ExceptMessage(phase), "phase_except") >>
    IN  \E k \in FaultPos(Len(calls), r.nf) :
            IF k = 0
            THEN IF phase = "codebase_update"
                 THEN AfterUpdate(Then(r, calls, k), FALSE)
                 ELSE AfterVerification(Then(r, calls, k), FALSE)
            ELSE Raise(Then(r, calls, k))
                 /\ UNCHANGED << update_success, verification_success, phase_returns >>

\* variant: the first report is made without looking at setup_tracker
BeginCalls_Unguarded(phase) ==
    IF phase = "codebase_update" THEN << ProgressCall(phase, 5, "phase_begin") >>
    ELSE << ProgressCall(phase, 10, "phase_begin") >>

\* if setup_tracker: the first report of a phase
BeginCalls(phase) ==
    IF ~tracker THEN << >>
    ELSE IF phase = "codebase_update" THEN << ProgressCall(phase, 5, "phase_begin") >>
    ELSE << ProgressCall(phase, 10, "phase_begin") >>

\* the first report of a phase
PhaseBegin(phase, to) ==
    LET calls == BeginCalls(phase)
    IN  \E k \in FaultPos(Len(calls), 0) :
            IF k = 0
            THEN Goto(Then(R0, calls, k), to)
                 /\ UNCHANGED << update_success, verification_success, phase_returns >>
            ELSE PhaseExcept(phase, Then(R0, calls, k))

\* the step invocation, the classification and the final report of a phase
PhaseStep(phase, present, o) ==
    LET success == present /\ StepSuccess(o)
        calls == FinalCalls(phase, success, LastError(phase, present, o))
    IN  \E k \in FaultPos(Len(calls), 0) :
            IF k = 0
            THEN IF phase = "codebase_update"
                 THEN AfterUpdate(Then(R0, calls, k), success)
                 ELSE AfterVerification(Then(R0, calls, k), success)
            ELSE PhaseExcept(phase, Then(R0, calls, k))

run_codebase_update_begin ==
    /\ pc = "update"
    /\ PhaseBegin("codebase_update", "update_step")
    /\ UNCHANGED << tracker, update_mod, verification_mod, store0, init_calls, interrupts,
                    invoked, setup_successful, overall_exit_code,
                    last_update_error, last_verification_error,
                    initiate_process, child_status, python_exists,
                    initiate_exists, threads, signals, timer, step_outcome,
                    prestep_outcome, clVars, fwVars,
                    mainVars, verVars >>

run_codebase_update ==
    /\ pc = "update_step"
    /\ \E o \in StepOutcomes :
        /\ step_outcome' =
               [step_outcome EXCEPT !["codebase_update"] = IF update_mod THEN o ELSE @]
        /\ invoked' = IF update_mod THEN Append(invoked, "update") ELSE invoked
        /\ last_update_error' = LastError("codebase_update", update_mod, o)
        /\ PhaseStep("codebase_update", update_mod, o)
    /\ UNCHANGED << tracker, update_mod, verification_mod, store0, init_calls, interrupts,
                    setup_successful, overall_exit_code,
                    last_verification_error,
                    initiate_process, child_status, python_exists,
                    initiate_exists, threads, signals, timer,
                    prestep_outcome, clVars, fwVars,
                    mainVars, verVars >>

run_environment_verification_begin ==
    /\ pc = "verify"
    /\ PhaseBegin("environment_verification", "verify_step")
    /\ UNCHANGED << tracker, update_mod, verification_mod, store0, init_calls, interrupts,
                    invoked, setup_successful, overall_exit_code,
                    last_update_error, last_verification_error,
                    initiate_process, child_status, python_exists,
                    initiate_exists, threads, signals, timer, step_outcome,
                    prestep_outcome, clVars, fwVars,
                    mainVars, verVars >>

run_environment_verification ==
    /\ pc = "verify_step"
    /\ \E o \in StepOutcomes :
        /\ step_outcome' =
               [step_outcome EXCEPT !["environment_verification"] =
                   IF verification_mod THEN o ELSE @]
        /\ invoked' = IF verification_mod THEN Append(invoked, "verification")
                      ELSE invoked
        /\ last_verification_error' =
               LastError("environment_verification", verification_mod, o)
        /\ PhaseStep("environment_verification", verification_mod, o)
    /\ UNCHANGED << tracker, update_mod, verification_mod, store0, init_calls, interrupts,
                    setup_successful, overall_exit_code,
                    last_update_error,
                    initiate_process, child_status, python_exists,
                    initiate_exists, threads, signals, timer,
                    prestep_outcome, clVars, fwVars,
                    mainVars, verVars >>

(***************************************************************************)
(* finalize_setup                                                          *)
(***************************************************************************)
ForwardingThreads == { "INITIATE", "INITIATE-ERR" }

\* variant: the verification result is not looked at
OverallSuccess_UpdateOnly(update_ok, verification_ok) == update_ok

\* overall success as finalize_setup decides it
OverallSuccess(update_ok, verification_ok) == update_ok /\ verification_ok

\* the tracker calls of finalize_setup
FinalizeCalls(update_ok, verification_ok) ==
    IF OverallSuccess(update_ok, verification_ok) /\ tracker
    THEN << OverallCall("completed", "finalize") >>
    ELSE << >>

\* variant: only the interpreter path is looked at
CanSpawn_PythonOnly(py, ini) == py

\* the child is started only if both paths exist
CanSpawn(py, ini) == py /\ ini

\* variant: a spawn that raises is reported as a failed setup
SpawnExceptCalls_ReportFailed ==
    IF tracker THEN << OverallCall("failed", "finalize") >> ELSE << >>

\* except Exception around the spawn: the exception is printed, no tracker
\* call is made
SpawnExceptCalls == << >>

finalize_setup ==
    /\ pc = "finalize"
    /\ IF OverallSuccess(update_success, verification_success)
       THEN /\ setup_successful' = TRUE
            /\ overall_exit_code' = 0
            /\ LET calls == FinalizeCalls(update_success, verification_success)
               IN  \E k \in FaultPos(Len(calls), 0) :
                     IF k # 0
                     THEN \* the exception leaves finalize_setup
                          /\ Raise(Then(R0, calls, k))
                          /\ UNCHANGED << python_exists, initiate_exists,
                                          initiate_process, threads, invoked,
                                          timer >>
                     ELSE \E py \in BOOLEAN, ini \in BOOLEAN, popen \in { "ok", "raise" } :
                          /\ python_exists' = py
                          /\ initiate_exists' = ini
                          /\ IF CanSpawn(py, ini)
                             THEN /\ invoked' = Append(invoked, "spawn")
                                  /\ IF popen = "ok"
                                     THEN /\ initiate_process' = "running"
                                          /\ threads' = ForwardingThreads
                                          /\ timer' = 0
                                          /\ Goto(Then(R0, calls, k), "grace")
                                     ELSE /\ Goto(Then(Then(R0, calls, k),
                                                       SpawnExceptCalls, 0),
                                                  "after_finalize")
                                          /\ UNCHANGED << initiate_process,
                                                          threads, timer >>
                             ELSE /\ popen = "ok"
                                  /\ Goto(Then(R0, calls, k), "after_finalize")
                                  /\ UNCHANGED << initiate_process, threads,
                                                  invoked, timer >>
       ELSE /\ Goto(R0, "after_finalize")
            /\ UNCHANGED << setup_successful, overall_exit_code, python_exists,
                            initiate_exists, initiate_process, threads,
                            invoked, timer >>
    /\ UNCHANGED << tracker, update_mod, verification_mod, store0, init_calls, interrupts,
                    update_success, verification_success, phase_returns, last_update_error,
                    last_verification_error, child_status, signals, step_outcome,
                    prestep_outcome, clVars, fwVars,
                    mainVars, verVars >>

\* time.sleep(2) is over: process.poll() is only logged
grace_poll ==
    /\ pc = "grace"
    /\ timer = GraceInterval
    /\ Goto(R0, "after_finalize")
    /\ UNCHANGED << tracker, update_mod, verification_mod, store0, init_calls, interrupts,
                    invoked, update_success, verification_success, phase_returns,
                    setup_successful, overall_exit_code, last_update_error,
                    last_verification_error, initiate_process, child_status,
                    python_exists, initiate_exists, threads, signals, timer,
                    step_outcome,
                    prestep_outcome, clVars, fwVars,
                    mainVars, verVars >>

(***************************************************************************)
(* run_complete_setup, step 5: the main wait and the cancellation          *)
(***************************************************************************)
\* variant: the child's returncode is returned once it exited
NormalExitCode_ChildStatus ==
    IF initiate_process = "exited" THEN child_status ELSE overall_exit_code

\* the value run_complete_setup returns when no interrupt arrived
NormalExitCode == overall_exit_code

\* if self.initiate_process and self.initiate_process.poll() is None
check_initiate ==
    /\ pc = "after_finalize"
    /\ IF initiate_process = "running" THEN Goto(R0, "wait")
       ELSE Return(R0, NormalExitCode)
    /\ UNCHANGED << tracker, update_mod, verification_mod, store0, init_calls, interrupts,
                    invoked, update_success, verification_success, phase_returns,
                    setup_successful, overall_exit_code, last_update_error,
                    last_verification_error, initiate_process, child_status,
                    python_exists, initiate_exists, threads, signals, timer,
                    step_outcome,
                    prestep_outcome, clVars, fwVars,
                    mainVars, verVars >>

\* self.initiate_process.wait() returns
wait_returns ==
    /\ pc = "wait"
    /\ initiate_process = "exited"
    /\ Return(R0, NormalExitCode)
    /\ UNCHANGED << tracker, update_mod, verification_mod, store0, init_calls, interrupts,
                    invoked, update_success, verification_success, phase_returns,
                    setup_successful, overall_exit_code, last_update_error,
                    last_verification_error, initiate_process, child_status,
                    python_exists, initiate_exists, threads, signals, timer,
                    step_outcome,
                    prestep_outcome, clVars, fwVars,
                    mainVars, verVars >>

\* KeyboardInterrupt in the main wait: terminate, then wait(timeout=5)
interrupt_in_wait ==
    /\ pc = "wait"
    /\ Len(interrupts) < MaxInterrupts
    /\ interrupts' = Append(interrupts, pc)
    /\ signals' = Append(signals, "terminate")
    /\ timer' = 0
    /\ Goto(R0, "escalate")
    /\ UNCHANGED << tracker, update_mod, verification_mod, store0, init_calls,
                    invoked, update_success, verification_success, phase_returns,
                    setup_successful, overall_exit_code, last_update_error,
                    last_verification_error, initiate_process, child_status,
                    python_exists, initiate_exists, threads, step_outcome,
                    prestep_outcome, clVars, fwVars,
                    mainVars, verVars >>

\* wait(timeout=5) of a handler is over: the child exited, or the timeout
\* expired and the child is killed
\* variant: the timeout is never noticed
TimeoutExpired_Late == timer > TerminateTimeout

TimeoutExpired == timer = TerminateTimeout

WaitOver == initiate_process = "exited" \/ TimeoutExpired

SignalsAfterWait ==
    IF initiate_process = "exited" THEN signals ELSE Append(signals, "kill")

escalate_done ==
    /\ pc = "escalate"
    /\ WaitOver
    /\ signals' = SignalsAfterWait
    /\ Return(R0, 130)
    /\ UNCHANGED << tracker, update_mod, verification_mod, store0, init_calls, interrupts,
                    invoked, update_success, verification_success, phase_returns,
                    setup_successful, overall_exit_code, last_update_error,
                    last_verification_error, initiate_process, child_status,
                    python_exists, initiate_exists, threads, timer, step_outcome,
                    prestep_outcome, clVars, fwVars,
                    mainVars, verVars >>

(***************************************************************************)
(* except KeyboardInterrupt of run_complete_setup                          *)
(***************************************************************************)
InterruptiblePcs ==
    { "init", "prestep", "update", "update_step", "verify", "verify_step",
      "finalize", "grace", "after_finalize", "escalate" }

\* the end of the handler: report "failed", return 130
InterruptReport(r) ==
    LET calls == IF tracker THEN << OverallCall("failed", "interrupt") >> ELSE << >>
    IN  \E k \in FaultPos(Len(calls), r.nf) :
            IF k = 0 THEN Return(Then(r, calls, k), 130)
            ELSE Escape(Then(r, calls, k))

interrupt ==
    /\ pc \in InterruptiblePcs
    /\ Len(interrupts) < MaxInterrupts
    /\ interrupts' = Append(interrupts, pc)
    /\ IF initiate_process = "running"
       THEN /\ signals' = Append(signals, "terminate")
            /\ timer' = 0
            /\ Goto(R0, "cleanup")
       ELSE /\ InterruptReport(R0)
            /\ UNCHANGED << signals, timer >>
    /\ UNCHANGED << tracker, update_mod, verification_mod, store0, init_calls,
                    invoked, update_success, verification_success, phase_returns,
                    setup_successful, overall_exit_code, last_update_error,
                    last_verification_error, initiate_process, child_status,
                    python_exists, initiate_exists, threads, step_outcome,
                    prestep_outcome, clVars, fwVars,
                    mainVars, verVars >>

cleanup_done ==
    /\ pc = "cleanup"
    /\ WaitOver
    /\ signals' = SignalsAfterWait
    /\ InterruptReport(R0)
    /\ UNCHANGED << tracker, update_mod, verification_mod, store0, init_calls, interrupts,
                    invoked, update_success, verification_success, phase_returns,
                    setup_successful, overall_exit_code, last_update_error,
                    last_verification_error, initiate_process, child_status,
                    python_exists, initiate_exists, threads, timer, step_outcome,
                    prestep_outcome, clVars, fwVars,
                    mainVars, verVars >>

\* KeyboardInterrupt inside the handler itself: nothing catches it
interrupt_in_cleanup ==
    /\ pc = "cleanup"
    /\ Len(interrupts) < MaxInterrupts
    /\ interrupts' = Append(interrupts, pc)
    /\ Escape(R0)
    /\ UNCHANGED << tracker, update_mod, verification_mod, store0, init_calls,
                    invoked, update_success, verification_success, phase_returns,
                    setup_successful, overall_exit_code, last_update_error,
                    last_verification_error, initiate_process, child_status,
                    python_exists, initiate_exists, threads, signals, timer,
                    step_outcome,
                    prestep_outcome, clVars, fwVars,
                    mainVars, verVars >>

(***************************************************************************)
(* The environment: time and the child process                             *)
(***************************************************************************)
\* one time unit passes in time.sleep(2) or in wait(timeout=5)
tick ==
    /\ \/ pc = "grace" /\ timer < GraceInterval
       \/ pc \in { "escalate", "cleanup" } /\ initiate_process = "running"
          /\ timer < TerminateTimeout
    /\ timer' = timer + 1
    /\ UNCHANGED << pc, tracker, update_mod, verification_mod, store, store0, init_calls,
                    writes, faults, interrupts, invoked, update_success,
                    verification_success, phase_returns, setup_successful, overall_exit_code,
                    last_update_error, last_verification_error,
                    initiate_process, child_status, python_exists,
                    initiate_exists, threads, signals, exit_code, step_outcome,
                    prestep_outcome, clVars, fwVars,
                    mainVars, verVars >>

Killed == \E i \in 1..Len(signals) : signals[i] = "kill"

\* the child exits: by itself, on terminate, or because it was killed
child_exits ==
    /\ initiate_process = "running"
    /\ initiate_process' = "exited"
    /\ \E st \in ChildStatuses : child_status' = IF Killed THEN -9 ELSE st
    /\ UNCHANGED << pc, tracker, update_mod, verification_mod, store, store0, init_calls,
                    writes, faults, interrupts, invoked, update_success,
                    verification_success, phase_returns, setup_successful, overall_exit_code,
                    last_update_error, last_verification_error,
                    python_exists, initiate_exists, threads, signals, timer,
                    exit_code, step_outcome,
                    prestep_outcome, clVars, fwVars,
                    mainVars, verVars >>

(***************************************************************************)
(* Specification of a run of run_complete_setup                            *)
(***************************************************************************)
ClIdle ==
    /\ cl_pc = "idle"
    /\ cl_phase = "codebase_update"
    /\ cl_out = << >>
    /\ cl_err = << >>
    /\ cl_code = NoneCode
    /\ cl_msg = << >>

\* no child has been started
FwIdle ==
    /\ fw_pc = [t \in Streams |-> "none"]
    /\ fw_line = [t \in Streams |-> NoLine]
    /\ fw_pipe = [t \in Streams |-> << >>]
    /\ fw_written = [t \in Streams |-> << >>]
    /\ fw_out = << >>
    /\ fw_child = "none"
    /\ fw_main = "idle"
    /\ fw_signals = << >>
    /\ fw_errors = 0

\* main() has not been entered
MainIdle ==
    /\ mn_pc = "idle"
    /\ mn_argv = << >>
    /\ mn_exit = NotReturned
    /\ mn_created = FALSE

\* no comparison has been made
NoResults == [lt_ab |-> FALSE, eq_ab |-> FALSE, gt_ab |-> FALSE,
              lt_ba |-> FALSE, gt_ba |-> FALSE,
              lt_bc |-> FALSE, lt_ac |-> FALSE]

\* no Version object has been built
VerIdle ==
    /\ ver_pc = "idle"
    /\ ver_a = << 0, 0, 0 >>
    /\ ver_b = << 0, 0, 0 >>
    /\ ver_c = << 0, 0, 0 >>
    /\ ver_res = NoResults

Init ==
    /\ pc = "init"
    /\ tracker \in BOOLEAN
    /\ update_mod \in BOOLEAN
    /\ verification_mod \in BOOLEAN
    /\ store \in IF tracker THEN InitialStores
                 ELSE { [overall_status |-> "unset", overall_progress |-> 0,
                         phases |-> [p \in PhaseNames |-> PhaseRec("absent", 0)]] }
    /\ store0 = store
    /\ writes = << >>
    /\ faults = 0
    /\ interrupts = << >>
    /\ invoked = << >>
    /\ update_success = FALSE
    /\ verification_success = FALSE
    /\ setup_successful = FALSE
    /\ overall_exit_code = 0
    /\ last_update_error = << >>
    /\ last_verification_error = << >>
    /\ initiate_process = "none"
    /\ child_status = 0
    /\ python_exists = FALSE
    /\ initiate_exists = FALSE
    /\ threads = {}
    /\ signals = << >>
    /\ timer = 0
    /\ exit_code = NotReturned
    /\ phase_returns = [p \in PhaseNames |-> "none"]
    /\ step_outcome = [p \in PhaseNames |-> NotInvoked]
    /\ prestep_outcome = "none"
    /\ init_calls = 0
    /\ ClIdle
    /\ FwIdle
    /\ MainIdle
    /\ VerIdle

Next ==
    \/ initialize_setup_state
    \/ run_pre_setup_script
    \/ interrupt_in_version_read
    \/ run_codebase_update_begin
    \/ run_codebase_update
    \/ run_environment_verification_begin
    \/ run_environment_verification
    \/ finalize_setup
    \/ grace_poll
    \/ check_initiate
    \/ wait_returns
    \/ interrupt_in_wait
    \/ escalate_done
    \/ interrupt
    \/ cleanup_done
    \/ interrupt_in_cleanup
    \/ tick
    \/ child_exits

Spec == Init /\ [][Next]_vars

(***************************************************************************)
(* The same run under the scheduling the program has: the control thread   *)
(* takes its next step, time passes in a sleep or a timed wait, and a      *)
(* killed child exits.  Interrupts and the child's own exit are free.      *)
(***************************************************************************)
FairSpec ==
    /\ Spec
    /\ WF_vars(initialize_setup_state)
    /\ WF_vars(run_pre_setup_script)
    /\ WF_vars(run_codebase_update_begin)
    /\ WF_vars(run_codebase_update)
    /\ WF_vars(run_environment_verification_begin)
    /\ WF_vars(run_environment_verification)
    /\ WF_vars(finalize_setup)
    /\ WF_vars(grace_poll)
    /\ WF_vars(check_initiate)
    /\ WF_vars(wait_returns)
    /\ WF_vars(escalate_done)
    /\ WF_vars(cleanup_done)
    /\ WF_vars(tick)
    /\ WF_vars(Killed /\ child_exits)

(***************************************************************************)
(* initialize_setup_state called several times in a row                    *)
(***************************************************************************)
initialize_again ==
    /\ pc = "prestep"
    /\ init_calls < MaxInitCalls
    /\ InitializeBody

InitNext == initialize_setup_state \/ initialize_again

SpecInit == Init /\ [][InitNext]_vars

(***************************************************************************)
(* The classification applied to generated captured texts                  *)
(***************************************************************************)
RECURSIVE Join(_)
Join(lines) ==
    IF lines = << >> THEN << >>
    ELSE IF Len(lines) = 1 THEN lines[1]
    ELSE lines[1] \o << "NL" >> \o Join(Tail(lines))

SeqsUpTo(S, n) == UNION { [1..m -> S] : m \in 0..n }

PatTokens ==
    { UpdatePatterns[i] : i \in 1..4 } \cup { VerificationPatterns[i] : i \in 1..2 }
    \cup { "w" }

\* pattern texts of at most n tokens
PatTexts(n) == SeqsUpTo(PatTokens, n)

LineSet ==
    { << >>, << "w" >>, << "SP", "[ERROR]", "w" >>, << "[FAIL]", "SP" >> }

\* texts of at most n lines, as sequences of lines
LineTexts(n) == SeqsUpTo(LineSet, n)

DiagTexts == { << >>, << "SP", "NL" >>, << "SP", "w", "NL" >> }

OrchIdle ==
    /\ pc = "idle"
    /\ tracker = FALSE
    /\ update_mod = FALSE
    /\ verification_mod = FALSE
    /\ store = [overall_status |-> "unset", overall_progress |-> 0,
                phases |-> [p \in PhaseNames |-> PhaseRec("absent", 0)]]
    /\ store0 = store
    /\ writes = << >>
    /\ faults = 0
    /\ interrupts = << >>
    /\ invoked = << >>
    /\ update_success = FALSE
    /\ verification_success = FALSE
    /\ setup_successful = FALSE
    /\ overall_exit_code = 0
    /\ last_update_error = << >>
    /\ last_verification_error = << >>
    /\ initiate_process = "none"
    /\ child_status = 0
    /\ python_exists = FALSE
    /\ initiate_exists = FALSE
    /\ threads = {}
    /\ signals = << >>
    /\ timer = 0
    /\ exit_code = NotReturned
    /\ phase_returns = [p \in PhaseNames |-> "none"]
    /\ step_outcome = [p \in PhaseNames |-> NotInvoked]
    /\ prestep_outcome = "none"
    /\ init_calls = 0

ClInit ==
    /\ OrchIdle
    /\ FwIdle
    /\ MainIdle
    /\ VerIdle
    /\ cl_pc = "input"
    /\ cl_phase \in PhaseNames
    /\ \/ \* a pattern text split between the normal and the diagnostic stream
          \E t \in PatTexts(MaxPatTokens) : \E i \in 0..Len(t) :
              /\ cl_out = SubSeq(t, 1, i)
              /\ cl_err = SubSeq(t, i + 1, Len(t))
              /\ cl_code \in { IntCode(1), NoneCode }
       \/ \* a text of lines with a diagnostic text
          \E ls \in LineTexts(MaxLines) :
              /\ cl_out = Join(ls)
              /\ cl_err \in DiagTexts
              /\ cl_code = IntCode(2)
    /\ cl_msg = << >>

\* except SystemExit of a phase: the message built from the captured text
classify ==
    /\ cl_pc = "input"
    /\ cl_msg' = Classify(cl_phase, cl_out, cl_err, cl_code)
    /\ cl_pc' = "classified"
    /\ UNCHANGED << orchVars, cl_phase, cl_out, cl_err, cl_code, fwVars,
                    mainVars, verVars >>

ClNext == classify

SpecClassify == ClInit /\ [][ClNext]_vars

(***************************************************************************)
(* The child's output: the two forwarding threads started by               *)
(* finalize_setup, the main thread waiting for the child, and the end of   *)
(* the orchestrator process.                                               *)
(***************************************************************************)
\* variant: both threads print the tag of the normal stream
Tag_Same(stream) == "INITIATE"

\* args=(process.stdout, "INITIATE") and args=(process.stderr, "INITIATE-ERR")
Tag(stream) == IF stream = "stdout" THEN "INITIATE" ELSE "INITIATE-ERR"

\* f"[{prefix}] {line}"
Format(prefix, line) == << "[", prefix, "] ", line >>

\* the child has been spawned, both threads are started, the main thread
\* is in self.initiate_process.wait()
FwInit ==
    /\ OrchIdle
    /\ ClIdle
    /\ MainIdle
    /\ VerIdle
    /\ fw_pc = [t \in Streams |-> "readline"]
    /\ fw_line = [t \in Streams |-> NoLine]
    /\ fw_pipe = [t \in Streams |-> << >>]
    /\ fw_written = [t \in Streams |-> << >>]
    /\ fw_out = << >>
    /\ fw_child = "running"
    /\ fw_main = "wait"
    /\ fw_signals = << >>
    /\ fw_errors = 0

\* the child writes its next line to one of its streams
child_writes(stream) ==
    /\ fw_child = "running"
    /\ Len(fw_written[stream]) < MaxChildLines
    /\ LET line == ChildLine(stream, Len(fw_written[stream]) + 1)
       IN  /\ fw_written' = [fw_written EXCEPT ![stream] = Append(@, line)]
           /\ fw_pipe' = [fw_pipe EXCEPT ![stream] = Append(@, line)]
    /\ UNCHANGED << orchVars, clVars, mainVars, verVars, fw_pc, fw_line, fw_out, fw_child, fw_main,
                    fw_signals, fw_errors >>

\* the child exits, by itself or on a signal: its ends of the pipes close
child_closes ==
    /\ fw_child = "running"
    /\ fw_child' = "exited"
    /\ UNCHANGED << orchVars, clVars, mainVars, verVars, fw_pc, fw_line, fw_pipe, fw_written, fw_out,
                    fw_main, fw_signals, fw_errors >>

\* pipe.readline(): the next line, or '' at the end of a closed pipe, which
\* ends the loop and the thread; it blocks on an empty open pipe
readline(t) ==
    /\ fw_pc[t] = "readline"
    /\ IF fw_pipe[t] # << >>
       THEN /\ fw_line' = [fw_line EXCEPT ![t] = Head(fw_pipe[t])]
            /\ fw_pipe' = [fw_pipe EXCEPT ![t] = Tail(@)]
            /\ fw_pc' = [fw_pc EXCEPT ![t] = "print"]
       ELSE /\ fw_child = "exited"
            /\ fw_pc' = [fw_pc EXCEPT ![t] = "finished"]
            /\ UNCHANGED << fw_line, fw_pipe >>
    /\ UNCHANGED << orchVars, clVars, mainVars, verVars, fw_written, fw_out, fw_child, fw_main,
                    fw_signals, fw_errors >>

\* print(f"[{prefix}] {line}", end='', flush=True)
print_line(t) ==
    /\ fw_pc[t] = "print"
    /\ fw_out' = Append(fw_out, Format(Tag(t), fw_line[t]))
    /\ fw_pc' = [fw_pc EXCEPT ![t] = "readline"]
    /\ UNCHANGED << orchVars, clVars, mainVars, verVars, fw_line, fw_pipe, fw_written, fw_child,
                    fw_main, fw_signals, fw_errors >>

\* except Exception in forward_output: readline or print raised; the error
\* is printed and the thread ends
stream_error(t) ==
    /\ fw_pc[t] \in { "readline", "print" }
    /\ fw_errors < MaxStreamErrors
    /\ fw_errors' = fw_errors + 1
    /\ fw_out' = Append(fw_out, Format(Tag(t), ErrorLine))
    /\ fw_pc' = [fw_pc EXCEPT ![t] = "failed"]
    /\ UNCHANGED << orchVars, clVars, mainVars, verVars, fw_line, fw_pipe, fw_written, fw_child,
                    fw_main, fw_signals >>

\* self.initiate_process.wait() returns, run_complete_setup returns and
\* main() calls sys.exit
main_wait_returns ==
    /\ fw_main = "wait"
    /\ fw_child = "exited"
    /\ fw_main' = "returned"
    /\ UNCHANGED << orchVars, clVars, mainVars, verVars, fw_pc, fw_line, fw_pipe, fw_written, fw_out,
                    fw_child, fw_signals, fw_errors >>

\* KeyboardInterrupt in the main wait: terminate, then wait(timeout=5)
main_interrupted ==
    /\ fw_main = "wait"
    /\ fw_signals' = Append(fw_signals, "terminate")
    /\ fw_main' = "escalate"
    /\ UNCHANGED << orchVars, clVars, mainVars, verVars, fw_pc, fw_line, fw_pipe, fw_written, fw_out,
                    fw_child, fw_errors >>

\* the timed wait is over: the child exited, or it is killed; return 130
main_escalated ==
    /\ fw_main = "escalate"
    /\ fw_signals' = IF fw_child = "exited" THEN fw_signals
                     ELSE Append(fw_signals, "kill")
    /\ fw_main' = "returned"
    /\ UNCHANGED << orchVars, clVars, mainVars, verVars, fw_pc, fw_line, fw_pipe, fw_written, fw_out,
                    fw_child, fw_errors >>

FwKilled == \E i \in 1..Len(fw_signals) : fw_signals[i] = "kill"

ThreadOver(t) == fw_pc[t] \in { "finished", "failed" }

\* variant: the threads are daemon threads, the process does not wait
CanExit_Daemon == fw_main = "returned"

\* stdout_thread.daemon = False, stderr_thread.daemon = False: the
\* interpreter joins both threads before the process ends
CanExit == fw_main = "returned" /\ \A t \in Streams : ThreadOver(t)

process_exits ==
    /\ CanExit
    /\ fw_main' = "terminated"
    /\ UNCHANGED << orchVars, clVars, mainVars, verVars, fw_pc, fw_line, fw_pipe, fw_written, fw_out,
                    fw_child, fw_signals, fw_errors >>

FwNext ==
    \/ \E s \in Streams : child_writes(s)
    \/ child_closes
    \/ \E t \in Streams : readline(t)
    \/ \E t \in Streams : print_line(t)
    \/ \E t \in Streams : stream_error(t)
    \/ main_wait_returns
    \/ main_interrupted
    \/ main_escalated
    \/ process_exits

SpecForward == FwInit /\ [][FwNext]_vars

\* the threads and the main thread take their steps, and a killed child
\* exits; what the child writes and when it exits by itself is free
FairSpecForward ==
    /\ SpecForward
    /\ \A t \in Streams : WF_vars(readline(t)) /\ WF_vars(print_line(t))
    /\ WF_vars(main_wait_returns)
    /\ WF_vars(main_escalated)
    /\ WF_vars(process_exits)
    /\ WF_vars(FwKilled /\ child_closes)

(***************************************************************************)
(* The command-line entry point main(): the version argument is validated  *)
(* before the orchestrator is created.                                     *)
(***************************************************************************)
MaxVersionLen == 5

\* characters of a version argument: two digits, the separator, a letter
Digits == { "1", "2" }
VersionChars == Digits \cup { ".", "x" }

\* str.split('.'): the segments between the separators, empty ones included
RECURSIVE SplitDots(_, _)
SplitDots(s, cur) ==
    IF s = << >> THEN << cur >>
    ELSE IF Head(s) = "." THEN << cur >> \o SplitDots(Tail(s), << >>)
    ELSE SplitDots(Tail(s), Append(cur, Head(s)))

\* str.isdigit(): at least one character and every character a digit
isdigit(part) ==
    /\ part # << >>
    /\ \A i \in 1..Len(part) : part[i] \in Digits

\* all(part.isdigit() for part in args.version.split('.'))
ValidFormat(version) ==
    LET parts == SplitDots(version, << >>)
    IN \A i \in 1..Len(parts) : isdigit(parts[i])

\* the process is started with no argument or with one version argument
MainInit ==
    /\ OrchIdle
    /\ ClIdle
    /\ FwIdle
    /\ VerIdle
    /\ mn_pc = "parse_args"
    /\ \/ mn_argv = << >>
       \/ \E v \in SeqsUpTo(VersionChars, MaxVersionLen) : mn_argv = << v >>
    /\ mn_exit = NotReturned
    /\ mn_created = FALSE

\* args.version: the positional argument, None (here the empty text, which
\* is as false as None) when there is none
args_version == IF mn_argv = << >> THEN << >> ELSE mn_argv[1]

\* args = parser.parse_args()
parse_args ==
    /\ mn_pc = "parse_args"
    /\ mn_pc' = "check_present"
    /\ UNCHANGED << orchVars, clVars, fwVars, verVars, mn_argv, mn_exit,
                    mn_created >>

\* if not args.version: sys.exit(1)  (None and '' are both false)
main_version_missing ==
    /\ mn_pc = "check_present"
    /\ args_version = << >>
    /\ mn_exit' = 1
    /\ mn_pc' = "exited"
    /\ UNCHANGED << orchVars, clVars, fwVars, verVars, mn_argv, mn_created >>

\* the version is present: the format check is reached
main_version_present ==
    /\ mn_pc = "check_present"
    /\ args_version # << >>
    /\ mn_pc' = "check_format"
    /\ UNCHANGED << orchVars, clVars, fwVars, verVars, mn_argv, mn_exit,
                    mn_created >>

\* if not all(part.isdigit() ...): sys.exit(1)
main_invalid_format ==
    /\ mn_pc = "check_format"
    /\ ~ ValidFormat(args_version)
    /\ mn_exit' = 1
    /\ mn_pc' = "exited"
    /\ UNCHANGED << orchVars, clVars, fwVars, verVars, mn_argv, mn_created >>

\* orchestrator = SetupOrchestrator(args.version)
main_create_orchestrator ==
    /\ mn_pc = "check_format"
    /\ ValidFormat(args_version)
    /\ mn_created' = TRUE
    /\ mn_pc' = "run_complete_setup"
    /\ UNCHANGED << orchVars, clVars, fwVars, verVars, mn_argv, mn_exit >>

\* exit_code = orchestrator.run_complete_setup(); sys.exit(exit_code)
main_exit ==
    /\ mn_pc = "run_complete_setup"
    /\ \E c \in { 0, 1, 130, 99 } : mn_exit' = c
    /\ mn_pc' = "exited"
    /\ UNCHANGED << orchVars, clVars, fwVars, verVars, mn_argv, mn_created >>

MainNext ==
    \/ parse_args
    \/ main_version_missing
    \/ main_version_present
    \/ main_invalid_format
    \/ main_create_orchestrator
    \/ main_exit

SpecMain == MainInit /\ [][MainNext]_vars

(***************************************************************************)
(* version.py: Version objects and their hybrid comparison.  A Version is  *)
(* the tuple << major, minor, patch >> parsed by _parse_version.           *)
(***************************************************************************)
MaxComponent == 21

\* the components of the versions named in the module docstring
DocComponents == { 0, 2, 11, 13 }

\* str(n): the decimal digits of a natural number
RECURSIVE Str(_)
Str(n) == IF n < 10 THEN << n >> ELSE Append(Str(n \div 10), n % 10)

\* variant: plain numeric comparison
compare_numbers_Numeric(a, b) ==
    IF a = b THEN 0 ELSE IF a < b THEN -1 ELSE 1

\* Version._compare_numbers
compare_numbers(a, b) ==
    IF a = b THEN 0
    ELSE LET a_first == Str(a)[1]
             b_first == Str(b)[1]
         IN IF a_first # b_first
            THEN (IF a_first < b_first THEN -1 ELSE 1)
            ELSE (IF a < b THEN -1 ELSE 1)

\* Version.__eq__
Version_eq(self, other) == self = other

\* Version.__lt__
Version_lt(self, other) ==
    LET major_cmp == compare_numbers(self[1], other[1])
        minor_cmp == compare_numbers(self[2], other[2])
        patch_cmp == compare_numbers(self[3], other[3])
    IN IF major_cmp # 0 THEN major_cmp < 0
       ELSE IF minor_cmp # 0 THEN minor_cmp < 0
       ELSE patch_cmp < 0

\* Version.__gt__
Version_gt(self, other) ==
    LET major_cmp == compare_numbers(self[1], other[1])
        minor_cmp == compare_numbers(self[2], other[2])
        patch_cmp == compare_numbers(self[3], other[3])
    IN IF major_cmp # 0 THEN major_cmp > 0
       ELSE IF minor_cmp # 0 THEN minor_cmp > 0
       ELSE patch_cmp > 0

\* three Version objects: versions that differ in the minor component only,
\* or versions built from the components of the documented examples
VerInit ==
    /\ OrchIdle
    /\ ClIdle
    /\ FwIdle
    /\ MainIdle
    /\ ver_pc = "built"
    /\ \/ \E x, y, z \in 0..MaxComponent :
              /\ ver_a = << 0, x, 0 >>
              /\ ver_b = << 0, y, 0 >>
              /\ ver_c = << 0, z, 0 >>
       \/ /\ ver_a \in DocComponents \X DocComponents \X DocComponents
          /\ ver_b \in DocComponents \X DocComponents \X DocComponents
          /\ ver_c \in DocComponents \X DocComponents \X DocComponents
    /\ ver_res = NoResults

\* a < b, a == b, a > b, b < a, b > a
compare_pair ==
    /\ ver_pc = "built"
    /\ ver_res' = [ver_res EXCEPT !.lt_ab = Version_lt(ver_a, ver_b),
                                  !.eq_ab = Version_eq(ver_a, ver_b),
                                  !.gt_ab = Version_gt(ver_a, ver_b),
                                  !.lt_ba = Version_lt(ver_b, ver_a),
                                  !.gt_ba = Version_gt(ver_b, ver_a)]
    /\ ver_pc' = "pair"
    /\ UNCHANGED << orchVars, clVars, fwVars, mainVars, ver_a, ver_b, ver_c >>

\* b < c, a < c
compare_chain ==
    /\ ver_pc = "pair"
    /\ ver_res' = [ver_res EXCEPT !.lt_bc = Version_lt(ver_b, ver_c),
                                  !.lt_ac = Version_lt(ver_a, ver_c)]
    /\ ver_pc' = "chain"
    /\ UNCHANGED << orchVars, clVars, fwVars, mainVars, ver_a, ver_b, ver_c >>

VerNext == compare_pair \/ compare_chain

SpecVersion == VerInit /\ [][VerNext]_vars

(***************************************************************************)
(* Properties                                                              *)
(***************************************************************************)
CU == "codebase_update"
EV == "environment_verification"

UpdateFailed == phase_returns[CU] = "FALSE"

\* no interrupt was delivered and no tracker call raised
Undisturbed == interrupts = << >> /\ faults = 0

Final(status) == status \in { "completed", "failed" }

WritesTo(phase) == { i \in 1..Len(writes) : writes[i].phase = phase }

OverallWrites == { i \in 1..Len(writes) : writes[i].op = "update_overall_status" }

C2_FinalizeWritesOverallStatus ==
    (tracker /\ Undisturbed /\ pc \in { "grace", "after_finalize", "wait" }) =>
        /\ writes # << >>
        /\ writes[Len(writes)] =
              OverallCall(IF update_success /\ verification_success
                          THEN "completed" ELSE "failed", "finalize")

\* C3 as stated: a run that returned without interrupt or tracker fault
\* and in which a phase failed has exit code 1.
C3_FailureExitsWithOne ==
    (/\ pc = "done"
     /\ Undisturbed
     /\ \E p \in PhaseNames : phase_returns[p] = "FALSE")
        => exit_code = 1

C5_InitPreservesFinalState ==
    (Final(store0.overall_status) /\ tracker /\ faults = 0 /\ init_calls >= 1)
        => /\ writes = << >>
           /\ store = store0
           /\ pc = "prestep"

C5_Witness ==
    /\ store0.overall_status = "failed"
    /\ store0.phases[EV].status = "pending"
    /\ init_calls = 2
    /\ faults = 0
    /\ store = store0

Classified == cl_pc = "classified"

UpdateReasons ==
    << "Downgrade not permitted: Target version is older than current version",
       "Update not permitted or cancelled by user",
       "Failed to fetch version information from server",
       "Invalid version format specified" >>

PresentUpdate(i) == InEither(UpdatePatterns[i], cl_out, cl_err)

\* C6: for the update phase the message is the reason of the first pattern,
\* in the order of UpdatePatterns, that occurs in the normal or in the
\* diagnostic text, whatever else the two texts contain.
C6_UpdatePriority ==
    (Classified /\ cl_phase = CU) =>
        \A i \in 1..4 :
            (PresentUpdate(i) /\ \A j \in 1..(i - 1) : ~PresentUpdate(j))
                => cl_msg = << UpdateReasons[i] >>

C6_Witness ==
    /\ Classified
    /\ cl_phase = CU
    /\ Len(cl_out) = 2
    /\ cl_out[1] = UpdatePatterns[4]
    /\ cl_out[2] = UpdatePatterns[2]
    /\ cl_err = << UpdatePatterns[1] >>
    /\ cl_msg = << UpdateReasons[1] >>

\* no pattern of the phase occurs in either captured text
NoPattern ==
    IF cl_phase = CU THEN \A i \in 1..4 : ~PresentUpdate(i)
    ELSE \A i \in 1..2 : ~InEither(VerificationPatterns[i], cl_out, cl_err)

GenericFor(phase, code) ==
    << IF phase = CU THEN "Update process failed with exit code "
       ELSE "Verification process failed with exit code ",
       CodeStr(code) >>

\* the message the fallback gives when the marker is looked for in lines:
\* the last of the last five lines that has a marker, trimmed
FromLines(lines) ==
    LET n == Len(lines)
        lo == IF n > 5 THEN n - 4 ELSE 1
        marked == { i \in lo..n : HasMarker(lines[i]) }
    IN  IF marked = {} THEN GenericFor(cl_phase, cl_code)
        ELSE Strip(lines[CHOOSE i \in marked : \A j \in marked : j <= i])

\* the lines of a text as written: a final newline ends the last line
WrittenLines(t) ==
    IF t # << >> /\ t[Len(t)] = "NL" THEN Split(SubSeq(t, 1, Len(t) - 1))
    ELSE Split(t)

\* C7 as stated: with no pattern, a diagnostic text that is not blank is the
\* message, trimmed; otherwise the message is the last marked line among the
\* last 5 lines of the normal text, so a marked line before the last 5
\* lines is never used; otherwise it is the generic message.
C7_FallbackOverWrittenLines ==
    (Classified /\ NoPattern) =>
        cl_msg = IF Strip(cl_err) # << >> THEN Strip(cl_err)
                 ELSE FromLines(WrittenLines(cl_out))

\* C7, amended: with no pattern, a diagnostic text that is not blank is the
\* message, trimmed; otherwise the normal text is trimmed first, so that
\* blank lines at its end are not counted, and the message is the last
\* marked line among the last 5 lines of the trimmed text, itself trimmed;
\* otherwise it is the generic message of the phase with the exit code.
C7_FallbackOverTrimmedText ==
    (Classified /\ NoPattern) =>
        cl_msg = IF Strip(cl_err) # << >> THEN Strip(cl_err)
                 ELSE FromLines(Split(Strip(cl_out)))

C7_Witness ==
    /\ Classified
    /\ NoPattern
    /\ cl_phase = EV
    /\ Strip(cl_err) = << >>
    /\ cl_err # << >>
    /\ Len(Split(Strip(cl_out))) = 7
    /\ HasMarker(Split(cl_out)[1])
    /\ HasMarker(Split(cl_out)[4])
    /\ ~HasMarker(Split(cl_out)[5])
    /\ cl_msg = << "[FAIL]" >>

\* C8: a cancellation in the main wait sends terminate first; a kill is
\* sent only when the 5 units of the timeout have passed with the child
\* still running, and the handler returns without a kill only if the child
\* has exited; the run then returns 130, and with no further interrupt it
\* does return, whatever the child does.
C8_CancellationEscalates ==
    /\ [](signals # << >> => signals[1] = "terminate")
    /\ [](pc \in { "escalate", "cleanup" } => timer <= TerminateTimeout)
    /\ [][(signals' # signals /\ signals'[Len(signals')] = "kill")
             => (timer = TerminateTimeout /\ initiate_process = "running")]_vars
    /\ []((pc = "done" /\ interrupts = << "wait" >>)
             => /\ exit_code = 130
                /\ (~Killed => initiate_process = "exited"))
    /\ (interrupts = << "wait" >>)
          ~> ((pc = "done" /\ exit_code = 130) \/ Len(interrupts) > 1)

C8_Witness ==
    /\ pc = "done"
    /\ exit_code = 130
    /\ interrupts = << "wait" >>
    /\ signals = << "terminate", "kill" >>
    /\ timer = TerminateTimeout
    /\ initiate_process = "running"

BothPhasesSucceeded == phase_returns = [p \in PhaseNames |-> "TRUE"]

SpawnAttempted == \E i \in 1..Len(invoked) : invoked[i] = "spawn"

\* C9: a child is spawned and forwarding threads are started only after
\* both phases succeeded and with both paths existing; in a run without
\* interrupt or tracker fault where both phases succeeded and a path is
\* missing, there is no child and no thread, the stored overall_status is
\* "completed" and the exit code is 0.
C9_SpawnOnlyWithPaths ==
    /\ (initiate_process # "none" \/ threads # {} \/ SpawnAttempted)
          => (BothPhasesSucceeded /\ python_exists /\ initiate_exists)
    /\ (threads # {}) => (initiate_process # "none")
    /\ (/\ pc = "done"
        /\ Undisturbed
        /\ BothPhasesSucceeded
        /\ ~(python_exists /\ initiate_exists))
          => /\ initiate_process = "none"
             /\ threads = {}
             /\ ~SpawnAttempted
             /\ exit_code = 0
             /\ (tracker => store.overall_status = "completed")

C9_Witness ==
    /\ pc = "done"
    /\ Undisturbed
    /\ BothPhasesSucceeded
    /\ tracker
    /\ python_exists
    /\ ~initiate_exists
    /\ store.overall_status = "completed"
    /\ exit_code = 0

\* C10: in a run without interrupt or tracker fault in which both steps
\* ended with success, Finalize writes overall_status "completed", the
\* child's spawn is attempted when both paths exist, and the run returns 0.
C10_SuccessfulRun ==
    (Undisturbed /\ BothPhasesSucceeded
        /\ pc \in { "grace", "after_finalize", "wait", "done" })
        => /\ setup_successful
           /\ tracker =>
                 /\ \E i \in OverallWrites : writes[i] = OverallCall("completed", "finalize")
                 /\ store.overall_status = "completed"
           /\ (python_exists /\ initiate_exists) => SpawnAttempted
           /\ pc = "done" => exit_code = 0

C10_Witness ==
    /\ pc = "done"
    /\ Undisturbed
    /\ BothPhasesSucceeded
    /\ tracker
    /\ initiate_process = "exited"
    /\ child_status = 1
    /\ exit_code = 0

\* a child was started and has exited
ChildExited == initiate_process = "exited"

\* C11 as stated: the main wait ends only when the child has exited, and a
\* run with a child that returned without interrupt or tracker fault has
\* the child's exit status as its exit code.
C11_ExitCodeIsChildStatus ==
    /\ [][(pc = "wait" /\ pc' = "done") => ChildExited]_vars
    /\ []((pc = "done" /\ Undisturbed /\ ChildExited) => exit_code = child_status)

\* C12 as stated: when a tracker call of initialization raises (the lookup
\* of the tracker, load_setup_state or a status update), the run returns 1
\* and neither the pre-step nor a phase step has been invoked.
C12_InitFaultExitsWithOne ==
    [][(pc = "init" /\ faults' > faults)
          => (pc' = "done" /\ exit_code' = 1 /\ invoked' = << >>)]_vars

ExitCodes == { 0, 1, 130, 99 }

\* C13 as stated: no exception leaves run_complete_setup: a fault that the
\* initialization, the phases, the supervision and the cancellation do not
\* handle is caught by its outer handler, which writes overall_status "error"
\* and returns 99; a run that returned has exit code 0, 1, 130 or 99.
C13_EveryFaultCaught ==
    /\ pc # "escaped"
    /\ pc = "done" => exit_code \in ExitCodes
    /\ (pc = "done" /\ exit_code = 99) =>
          /\ writes # << >>
          /\ writes[Len(writes)] = OverallCall("error", "orchestration_except")
          /\ store.overall_status = "error"

\* the external steps a complete run invokes, given what the steps did
StepSequence ==
    << "pre_setup" >>
    \o (IF update_mod THEN << "update" >> ELSE << >>)
    \o (IF last_update_error = << >> /\ verification_mod
        THEN << "verification" >> ELSE << >>)
    \o (IF last_update_error = << >> /\ verification_mod
           /\ last_verification_error = << >>
           /\ python_exists /\ initiate_exists
        THEN << "spawn" >> ELSE << >>)

\* the interrupts that reached a handler of run_complete_setup
Handled == { i \in 1..Len(interrupts) : interrupts[i] # "version_read" }

\* C14: without setup_tracker no tracker call is made and none raises, the
\* stored state is untouched, and an exception leaves the run only on an
\* interrupt inside the interrupt handler; a run without tracker fault,
\* with or without setup_tracker, invokes the steps that the steps' own
\* results determine, each phase returning success exactly when its step
\* left no error, and returns 0, or 130 after an interrupt that reached
\* the handlers of run_complete_setup.
C14_StandaloneSameRun ==
    /\ ~tracker =>
          /\ writes = << >>
          /\ faults = 0
          /\ store = store0
          /\ pc = "escaped" => Len(interrupts) > 1
    /\ (pc = "done" /\ faults = 0) =>
          /\ exit_code = IF Handled = { } THEN 0 ELSE 130
          /\ interrupts = << >> =>
                /\ invoked = StepSequence
                /\ phase_returns[CU] = ToString(update_mod /\ last_update_error = << >>)
                /\ phase_returns[EV] =
                      IF phase_returns[CU] = "FALSE" THEN "none"
                      ELSE ToString(verification_mod /\ last_verification_error = << >>)

C14_Witness ==
    /\ ~tracker
    /\ pc = "done"
    /\ exit_code = 0
    /\ invoked = << "pre_setup", "update", "verification", "spawn" >>
    /\ initiate_process = "exited"

\* the error the orchestrator keeps for a phase
LastErrorOf(p) == IF p = CU THEN last_update_error ELSE last_verification_error

\* the step of phase p was invoked and the phase has returned
StepDone(p) == step_outcome[p] # NotInvoked /\ phase_returns[p] # "none"

\* C15: a phase whose step was invoked, with no tracker call raising,
\* returns success exactly when the step returned normally or raised an
\* exit signal with the integer code 0; after an exit signal with another
\* integer code it returns failure, keeps the classifier's message as its
\* error and, with a tracker, marks the phase failed with that message;
\* after a success the error it keeps is empty.
C15_SuccessIffZero ==
    \A p \in PhaseNames :
        (StepDone(p) /\ faults = 0) =>
            LET o == step_outcome[p]
            IN  /\ phase_returns[p] = "TRUE" <=>
                      \/ o.kind = "return"
                      \/ o.kind = "exit" /\ o.code = IntCode(0)
                /\ (o.kind = "exit" /\ o.code.kind = "int" /\ o.code.n # 0) =>
                      /\ phase_returns[p] = "FALSE"
                      /\ LastErrorOf(p) = Classify(p, o.out, o.err, o.code)
                      /\ tracker =>
                            \E i \in WritesTo(p) :
                                writes[i] = FailedCall(p, Classify(p, o.out, o.err, o.code),
                                                       "phase_end")
                /\ phase_returns[p] = "TRUE" => LastErrorOf(p) = << >>

C15_Witness ==
    /\ StepDone(CU)
    /\ StepDone(EV)
    /\ faults = 0
    /\ step_outcome[CU] = StepOutcome("exit", IntCode(0), << "w", "NL" >>, << >>)
    /\ phase_returns[CU] = "TRUE"
    /\ step_outcome[EV].code = IntCode(2)
    /\ phase_returns[EV] = "FALSE"
    /\ last_verification_error = << "[ERROR]", "w" >>

ModuleOf(p) == IF p = CU THEN update_mod ELSE verification_mod

\* the phase has returned and its step raised an exception other than an
\* exit signal, or the module of its step is absent
PhaseFault(p) ==
    /\ phase_returns[p] # "none"
    /\ ~ModuleOf(p) \/ step_outcome[p].kind = "raise"

FaultReason(p) ==
    IF ~ModuleOf(p)
    THEN IF p = CU THEN << "Update module not available" >>
         ELSE << "Verification module not available" >>
    ELSE IF p = CU THEN << "Exception during update: ", "fault" >>
         ELSE << "Exception during verification: ", "fault" >>

\* C16: when the step of a phase raised or its module is absent, and no
\* tracker call raised, the phase returned failure, keeps the reason
\* "Exception during <phase>: ..." or "<Phase> module not available" and,
\* with a tracker, mark_phase_failed was called once for the phase with
\* that reason; without interrupt the run is at Finalize or behind it, no
\* exception left it and its exit code is not 99; after a fault of the
\* update phase the verification phase is not run, and after either fault
\* no child is spawned.
C16_PhaseFaultContained ==
    \A p \in PhaseNames :
        (PhaseFault(p) /\ faults = 0) =>
            /\ phase_returns[p] = "FALSE"
            /\ LastErrorOf(p) = FaultReason(p)
            /\ tracker =>
                  \E i \in WritesTo(p) :
                      /\ writes[i] = FailedCall(p, FaultReason(p), "phase_end")
                      /\ \A j \in WritesTo(p) :
                            writes[j].op = "mark_phase_failed" => j = i
            /\ interrupts = << >> => pc \in { "finalize", "after_finalize", "done" }
            /\ pc # "escaped"
            /\ exit_code # 99
            /\ (pc = "done" /\ interrupts = << >>) => exit_code = 0
            /\ p = CU =>
                  /\ phase_returns[EV] = "none"
                  /\ step_outcome[EV] = NotInvoked
                  /\ \A i \in 1..Len(invoked) : invoked[i] # "verification"
                  /\ \A i \in WritesTo(EV) : writes[i].site = "init"
            /\ ~SpawnAttempted

C16_Witness ==
    /\ PhaseFault(CU)
    /\ step_outcome[CU].kind = "raise"
    /\ tracker
    /\ faults = 0
    /\ interrupts = << >>
    /\ pc = "done"
    /\ exit_code = 0
    /\ last_update_error = << "Exception during update: ", "fault" >>

\* the positions of run_complete_setup inside the execution of a phase
PhasePcs(p) == IF p = CU THEN { "update", "update_step" } ELSE { "verify", "verify_step" }

\* the tracker calls completed by the step being taken
NewWrites == { i \in 1..Len(writes') : i > Len(writes) }

\* the call is made by the phase it targets, before that phase returns
ByOwnPhase(c) == pc \in PhasePcs(c.phase) /\ phase_returns[c.phase] = "none"

C18_PreStepNeverBlocks ==
    /\ [][(pc = "init" /\ pc' \notin { "done", "escaped" }) => pc' = "prestep"]_vars
    /\ [][(pc = "prestep" /\ interrupts' = interrupts) =>
             /\ pc' = "update"
             /\ prestep_outcome' \in PreStepOutcomes
             /\ UNCHANGED << exit_code, overall_exit_code, store, writes, faults,
                             update_success, verification_success, phase_returns,
                             setup_successful >>]_vars
    /\ [][pc' = "update" => pc \in { "prestep", "update" }]_vars
    /\ []((pc = "done" /\ Undisturbed) =>
             (prestep_outcome \in PreStepOutcomes /\ exit_code = 0))

C18_Witness ==
    /\ pc = "done"
    /\ Undisturbed
    /\ prestep_outcome = "fetch_failed"
    /\ BothPhasesSucceeded
    /\ exit_code = 0
    /\ store.overall_status = "completed"

\* C19 as stated, for the least disturbed case: a run that received exactly
\* one interrupt, at whatever point, and in which no tracker call raised,
\* has ended with 130 once it has ended, and a child still running then
\* has been sent terminate and kill.
C19_InterruptEndsWith130 ==
    (pc \in { "done", "escaped" } /\ faults = 0 /\ Len(interrupts) = 1) =>
        /\ pc = "done"
        /\ exit_code = 130
        /\ initiate_process = "running" =>
              (signals # << >> /\ signals[1] = "terminate" /\ Killed)

\* the spawn raised, the child had exited when the grace interval was
\* over, or the child exited later with a status other than 0
SpawnRaised == SpawnAttempted /\ initiate_process = "none"

ExitedInGrace == ChildExited /\ pc \in { "grace", "after_finalize" }

ExitedNonZero == ChildExited /\ child_status # 0

SupervisionFault == SpawnRaised \/ ExitedInGrace \/ ExitedNonZero

\* C20: after a supervision fault, in a run in which no interrupt reached
\* the handlers and no tracker call raised, setup_successful is true,
\* overall_exit_code is 0, both phases have returned success and no phase
\* was marked failed; with a tracker the last call is still Finalize's
\* update_overall_status "completed" and that is the stored status; the
\* run returns 0.
C20_SupervisionFaultOnlyLogged ==
    (SupervisionFault /\ Handled = { } /\ faults = 0) =>
        /\ setup_successful
        /\ overall_exit_code = 0
        /\ BothPhasesSucceeded
        /\ \A i \in 1..Len(writes) : writes[i].op # "mark_phase_failed"
        /\ tracker =>
              /\ writes # << >>
              /\ writes[Len(writes)] = OverallCall("completed", "finalize")
              /\ store.overall_status = "completed"
        /\ pc \in { "grace", "after_finalize", "wait", "done" }
        /\ pc = "done" => exit_code = 0

C20_Witness ==
    /\ SpawnRaised
    /\ tracker
    /\ faults = 0
    /\ interrupts = << >>
    /\ pc = "done"
    /\ exit_code = 0
    /\ store.overall_status = "completed"

\* the child's lines printed with the tag of a stream, in printing order
Printed(s) == SelectSeq(fw_out, LAMBDA e : e[2] = Tag(s) /\ e[4] # ErrorLine)

\* the line a thread has read and not yet printed
Held(t) == IF fw_pc[t] = "print" THEN << fw_line[t] >> ELSE << >>

\* C21: under every interleaving of the two forwarding threads, the child
\* and the main thread, what is printed with the tag of a stream is, line by
\* line and in the child's order, the beginning of what the child wrote to
\* that stream, each line once and as "[tag] line"; a thread holds only
\* lines of its own stream; as long as a thread has not raised, the
\* lines written are those printed, the one held and those still in the
\* pipe; and a thread that ended at the end of its stream printed them all.
C21_ForwardedOnceInOrder ==
    \A s \in Streams :
        /\ Len(Printed(s)) <= Len(fw_written[s])
        /\ \A i \in 1..Len(Printed(s)) :
              Printed(s)[i] = Format(Tag(s), fw_written[s][i])
        /\ \A i \in 1..Len(fw_out) :
              fw_out[i][4] # ErrorLine =>
                  fw_out[i][2] = Tag(fw_out[i][4].stream)
        /\ fw_pc[s] = "print" => fw_line[s].stream = s
        /\ \A i \in 1..Len(fw_pipe[s]) : fw_pipe[s][i].stream = s
        /\ fw_pc[s] # "failed" =>
              Len(fw_written[s]) = Len(Printed(s)) + Len(Held(s)) + Len(fw_pipe[s])
        /\ fw_pc[s] = "finished" => Len(Printed(s)) = Len(fw_written[s])

C21_Witness ==
    /\ \A s \in Streams : fw_pc[s] = "finished"
    /\ fw_main = "terminated"
    /\ fw_out = << Format("INITIATE-ERR", ChildLine("stderr", 1)),
                   Format("INITIATE", ChildLine("stdout", 1)),
                   Format("INITIATE-ERR", ChildLine("stderr", 2)),
                   Format("INITIATE", ChildLine("stdout", 2)) >>

\* C22: a forwarding thread ends at the end of its stream only when the
\* child has exited and its pipe is read empty; the process ends only after
\* the main thread returned and both threads are over, with nothing left in
\* the pipe of a thread that did not raise; and once the child has exited,
\* by itself or after terminate and kill, both threads end and the process
\* ends.
C22_ThreadsDrainBeforeExit ==
    /\ [](\A t \in Streams :
             fw_pc[t] = "finished" => (fw_child = "exited" /\ fw_pipe[t] = << >>))
    /\ [](fw_main = "terminated" =>
             \A t \in Streams :
                 /\ ThreadOver(t)
                 /\ fw_pc[t] = "finished" => Len(Printed(t)) = Len(fw_written[t]))
    /\ (fw_child = "exited") ~> (\A t \in Streams : ThreadOver(t))
    /\ (fw_child = "exited") ~> (fw_main = "terminated")

C22_Witness ==
    /\ fw_main = "terminated"
    /\ fw_signals = << "terminate", "kill" >>
    /\ fw_child = "exited"
    /\ \A t \in Streams : fw_pc[t] = "finished" /\ Len(fw_written[t]) = MaxChildLines

\* how many times an external step was invoked
Invocations(step) == Cardinality({ i \in 1..Len(invoked) : invoked[i] = step })

\* C23: each step is invoked at most once; a phase is being executed only
\* while it has not returned, and what it returned never changes; while the
\* verification phase is executed or after it returned, the update phase
\* has returned success and, with a tracker, its report of 100% progress
\* was written before every report of the verification phase; the update
\* phase is not executed after the verification phase was entered.
C23_PhasesInSequence ==
    /\ [](/\ Invocations("update") <= 1
          /\ Invocations("verification") <= 1
          /\ \A p \in PhaseNames : pc \in PhasePcs(p) => phase_returns[p] = "none"
          /\ (pc \in PhasePcs(CU)) =>
                (Invocations("verification") = 0 /\ step_outcome[EV] = NotInvoked)
          /\ (\/ pc \in PhasePcs(EV)
              \/ phase_returns[EV] # "none"
              \/ Invocations("verification") = 1) =>
                /\ phase_returns[CU] = "TRUE"
                /\ tracker =>
                      \E i \in WritesTo(CU) :
                          /\ writes[i] = ProgressCall(CU, 100, "phase_end")
                          /\ \A j \in WritesTo(EV) :
                                writes[j].site # "init" => i < j)
    /\ [][\A p \in PhaseNames :
             phase_returns[p] # "none" => phase_returns'[p] = phase_returns[p]]_vars
    /\ [][\A p \in PhaseNames :
             (pc' \in PhasePcs(p) /\ pc \notin PhasePcs(p)) =>
                 pc = (IF p = CU THEN "prestep" ELSE "update_step")]_vars

C23_Witness ==
    /\ pc = "done"
    /\ tracker
    /\ faults = 0
    /\ invoked = << "pre_setup", "update", "verification" >>
    /\ phase_returns[EV] = "FALSE"
    /\ \E i \in WritesTo(CU) :
          /\ writes[i] = ProgressCall(CU, 100, "phase_end")
          /\ writes[i + 1] = ProgressCall(EV, 10, "phase_begin")

\* the tracker calls a phase made for itself after its first report
FinalReports(p) ==
    { i \in WritesTo(p) : writes[i].site \in { "phase_end", "phase_except" } }

\* the reason a failed step leaves: the classifier's message after an exit
\* signal, the exception message after another exception
ClassifiedReason(p, o) ==
    IF o.kind = "exit" THEN Classify(p, o.out, o.err, o.code)
    ELSE IF p = CU THEN << "Exception during update: ", "fault" >>
    ELSE << "Exception during verification: ", "fault" >>

\* "Invalid version format" is the first update pattern found in the text
InvalidVersionFirst(o) ==
    /\ InEither(UpdatePatterns[4], o.out, o.err)
    /\ \A i \in 1..3 : ~InEither(UpdatePatterns[i], o.out, o.err)

\* C24: with a tracker and no tracker call raising, a phase whose step was
\* invoked and which has returned made exactly one report after the step:
\* update_phase_progress with 100 if it returned success, and then no
\* mark_phase_failed at all, or mark_phase_failed with the classified reason
\* if it returned failure; for an update step that exited with a non-zero
\* code and whose text has "Invalid version format" and no pattern of
\* higher priority, that reason is "Invalid version format specified".
C24_OneFinalReport ==
    \A p \in PhaseNames :
        (StepDone(p) /\ tracker /\ faults = 0) =>
            LET o == step_outcome[p]
            IN  /\ Cardinality(FinalReports(p)) = 1
                /\ \A i \in FinalReports(p) :
                      writes[i] =
                          IF phase_returns[p] = "TRUE"
                          THEN ProgressCall(p, 100, "phase_end")
                          ELSE FailedCall(p, ClassifiedReason(p, o), "phase_end")
                /\ phase_returns[p] = "TRUE" =>
                      \A i \in WritesTo(p) : writes[i].op # "mark_phase_failed"
                /\ (/\ p = CU
                    /\ o.kind = "exit"
                    /\ ~CodeIsZero(o.code)
                    /\ InvalidVersionFirst(o)) =>
                      \E i \in FinalReports(p) :
                          writes[i].error = << "Invalid version format specified" >>

C24_Witness ==
    /\ StepDone(CU)
    /\ tracker
    /\ faults = 0
    /\ step_outcome[CU].kind = "exit"
    /\ InvalidVersionFirst(step_outcome[CU])
    /\ pc = "done"
    /\ \E i \in FinalReports(CU) :
          writes[i] = FailedCall(CU, << "Invalid version format specified" >>, "phase_end")

\* exactly three segments, each of digits only
WellFormed(version) ==
    LET parts == SplitDots(version, << >>)
    IN /\ Len(parts) = 3
       /\ \A i \in 1..3 : isdigit(parts[i])

\* C25 as stated: main() exits with code 1, before the orchestrator is
\* created, whenever the version argument is absent or is not made of exactly
\* three digits-only segments; only well-formed versions reach
\* run_complete_setup.
C25_OnlyWellFormedReachSetup ==
    /\ mn_created => WellFormed(args_version)
    /\ (mn_pc = "exited" /\ ~ WellFormed(args_version))
           => (mn_exit = 1 /\ ~ mn_created)

\* the leading decimal digit of a natural number
FirstDigit(n) == Str(n)[1]

\* the documented order of two numbers: by first digit when the first digits
\* differ, by value when they are equal
HybridLess(x, y) ==
    \/ FirstDigit(x) < FirstDigit(y)
    \/ FirstDigit(x) = FirstDigit(y) /\ x < y

\* the documented order of two versions: the order of their first differing
\* component, major before minor before patch
DocumentedLess(a, b) ==
    \E i \in 1..3 :
        /\ \A j \in 1..(i - 1) : a[j] = b[j]
        /\ a[i] # b[i]
        /\ HybridLess(a[i], b[i])

\* C26: the comparison follows the hybrid rule component by component
\* (0.2.0 > 0.11.0 and 0.13.0 > 0.11.0), exactly one of a < b, a == b, a > b
\* holds for all versions a and b, a < b is b > a, and a < b and b < c give
\* a < c.
C26_HybridTotalOrder ==
    /\ ver_pc \in { "pair", "chain" } =>
          /\ ver_res.lt_ab = DocumentedLess(ver_a, ver_b)
          /\ ver_res.gt_ab = DocumentedLess(ver_b, ver_a)
          /\ ver_res.eq_ab = (ver_a = ver_b)
          /\ \/ ver_res.lt_ab /\ ~ ver_res.eq_ab /\ ~ ver_res.gt_ab
             \/ ~ ver_res.lt_ab /\ ver_res.eq_ab /\ ~ ver_res.gt_ab
             \/ ~ ver_res.lt_ab /\ ~ ver_res.eq_ab /\ ver_res.gt_ab
          /\ ver_res.lt_ab = ver_res.gt_ba
          /\ ver_res.gt_ab = ver_res.lt_ba
          /\ (ver_a = << 0, 2, 0 >> /\ ver_b = << 0, 11, 0 >>) => ver_res.gt_ab
          /\ (ver_a = << 0, 13, 0 >> /\ ver_b = << 0, 11, 0 >>) => ver_res.gt_ab
    /\ ver_pc = "chain" =>
          ((ver_res.lt_ab /\ ver_res.lt_bc) => ver_res.lt_ac)

\* 0.2.0 < 0.11.0 is false, 0.11.0 < 0.13.0 and 0.13.0 < 0.2.0 are true, and
\* so is 0.11.0 < 0.2.0
C26_Witness ==
    /\ ver_pc = "chain"
    /\ ver_a = << 0, 11, 0 >>
    /\ ver_b = << 0, 13, 0 >>
    /\ ver_c = << 0, 2, 0 >>
    /\ ver_res.lt_ab /\ ver_res.lt_bc /\ ver_res.lt_ac
    /\ ver_res.gt_ba

\* C27 as stated: once Finalize has written overall_status "completed", no
\* later tracker call of the same run writes a different overall_status.
C27_CompletedIsFinal ==
    \A i \in 1..Len(writes) :
        writes[i] = OverallCall("completed", "finalize") =>
            \A j \in (i + 1)..Len(writes) :
                writes[j].op = "update_overall_status"
                    => writes[j].status = "completed"

VerificationReasons ==
    << "Environment verification found critical errors",
       "Environment verification failed" >>

PresentVerification(i) == InEither(VerificationPatterns[i], cl_out, cl_err)

\* C28 as stated: in both phases a pattern of the phase found in the normal or
\* in the diagnostic text decides the message before the fallback does: for
\* the verification phase "Critical Errors" in either text gives "Environment
\* verification found critical errors", otherwise "VERIFICATION FAILED" in
\* either text gives "Environment verification failed".
C28_PatternInEitherStream ==
    Classified =>
        /\ cl_phase = CU =>
              \A i \in 1..4 :
                  (PresentUpdate(i) /\ \A j \in 1..(i - 1) : ~PresentUpdate(j))
                      => cl_msg = << UpdateReasons[i] >>
        /\ cl_phase = EV =>
              \A i \in 1..2 :
                  (PresentVerification(i)
                      /\ \A j \in 1..(i - 1) : ~PresentVerification(j))
                      => cl_msg = << VerificationReasons[i] >>

\* the step of phase p ended with an exit signal that carries no code
ExitedWithoutCode(p) ==
    step_outcome[p].kind = "exit" /\ step_outcome[p].code = NoneCode

====
